---- MODULE Spec2Model ----
(***************************************************************************)
(* EduChain (src/app.py): Transaction, Block and Blockchain.               *)
(*                                                                         *)
(* Transactions are Python objects: the pool and the blocks hold           *)
(* references to them, so `txs` is the heap of Transaction objects and the *)
(* pool and the blocks hold indexes into it.  A block index i of the       *)
(* program is position i + 1 of the sequence `chain`.                      *)
(***************************************************************************)
EXTENDS Integers, Sequences, FiniteSets, TLC

VARIABLES txs, chain, pending_transactions, difficulty, processed_tx_ids,
          mining_times, clock, pc, last

vars == <<txs, chain, pending_transactions, difficulty, processed_tx_ids,
          mining_times, clock, pc, last>>

-----------------------------------------------------------------------------
(* Bounds of the model *)

\* Transaction objects the caller constructs.
MaxTx == 2
\* Blocks in the chain, the genesis block included.
MaxChain == 3
\* Transactions waiting in the pool.
MaxPool == 2
\* Transactions accepted in all, in the pool and in blocks.
MaxAccepted == 3
\* Last reading of the clock, time.time().
MaxTime == 1
\* Largest difficulty adjust_difficulty is let to reach.
MaxDifficulty == 3
\* Characters of a digest: hexdigest() has 64, the model keeps the first HashLen.
HashLen == 2

(* Program constants *)

\* self.difficulty = 2
StartDifficulty == 2
\* Block(0, "0", [], 1)
GenesisDifficulty == 1
\* target_time = 2.0
TargetTime == 2
\* A hexadecimal character takes 16 values.
HexBase == 16

(* Inputs *)

Senders == {<<"A">>}
Receivers == {<<"B">>}
Amounts == {1, 2}
\* timestamp=None is 0: `timestamp if timestamp else time.time()`.
NoTimestamp == 0
Timestamps == {NoTimestamp, 1}
\* Elapsed time of a search: below, at and above the target.
MiningTimes == (TargetTime - 1)..(TargetTime + 1)
\* corrupt_block(block_index, new_data)
BlockIndexes == {0 - (MaxChain + 1), 0 - 1} \cup 0..MaxChain
NewData == Amounts

-----------------------------------------------------------------------------
(* Text and digests *)

Digit == <<"0", "1", "2", "3", "4", "5", "6", "7", "8", "9">>

DigitValues == [c \in {Digit[i] : i \in 1..10} |->
                   (CHOOSE i \in 1..10 : Digit[i] = c) - 1]

DigitVal(c) == DigitValues[c]

\* f"{n}" of a non-negative integer: its decimal digits.
RECURSIVE ToStr(_)
ToStr(n) == IF n < 10 THEN <<Digit[n + 1]>>
            ELSE ToStr(n \div 10) \o <<Digit[(n % 10) + 1]>>

\* The number a string of decimal digits reads as.
RECURSIVE NumVal(_)
NumVal(s) == IF s = <<>> THEN 0
             ELSE 10 * NumVal(SubSeq(s, 1, Len(s) - 1)) + DigitVal(s[Len(s)])

Ord(c) == IF c = "A" THEN 65 ELSE IF c = "B" THEN 66 ELSE 48 + DigitVal(c)

RECURSIVE StrCode(_)
StrCode(s) == IF s = <<>> THEN 0 ELSE Ord(Head(s)) + 3 * StrCode(Tail(s))

RECURSIVE Pow2(_)
Pow2(n) == IF n = 0 THEN 1 ELSE 2 * Pow2(n - 1)

\* The first HashLen characters of the digest of a text whose numeric reading
\* is code, as numbers 0..15: a fixed function of the text.
HexChars(code) == [i \in 1..HashLen |-> (code \div Pow2(i - 1)) % HexBase]

\* hashlib.sha256(s.encode()).hexdigest(): a digest is its leading characters
\* and, standing for the rest of them, the text it was taken of, so two
\* digests are equal exactly when their texts are (no collisions).
Sha256(s, code) == [hex |-> HexChars(code), pre |-> s]

\* The string "0", previous_hash of the genesis block.
ZeroString == [hex |-> <<0>>, pre |-> <<>>]

\* h[:n] of a digest.
Slice(h, n) == SubSeq(h.hex, 1, IF n < Len(h.hex) THEN n ELSE Len(h.hex))

\* "0" * n
Zeros(n) == [i \in 1..n |-> 0]

-----------------------------------------------------------------------------
(* Transaction *)

TxString(sender, receiver, amount, timestamp) ==
    sender \o receiver \o ToStr(amount) \o ToStr(timestamp)

\* Transaction.calculate_hash
TxCalculateHash(sender, receiver, amount, timestamp) ==
    LET tx_string == TxString(sender, receiver, amount, timestamp)
    IN  Sha256(tx_string, StrCode(tx_string))

\* Transaction.__init__ without tx_id
NewTransaction(sender, receiver, amount, timestamp, now) ==
    LET ts == IF timestamp # NoTimestamp THEN timestamp ELSE now
    IN  [sender |-> sender, receiver |-> receiver, amount |-> amount,
         timestamp |-> ts,
         id |-> TxCalculateHash(sender, receiver, amount, ts)]

\* Transaction.to_dict
ToDict(tx) == [id |-> tx.id, sender |-> tx.sender, receiver |-> tx.receiver,
               amount |-> tx.amount, timestamp |-> tx.timestamp]

-----------------------------------------------------------------------------
(* Block *)

\* json.dumps([tx.to_dict() for tx in self.transactions], sort_keys=True)
TxJson(transactions, heap) ==
    [i \in 1..Len(transactions) |-> ToDict(heap[transactions[i]])]

\* f"{index}{timestamp}{tx_string}{previous_hash}{difficulty}{nonce}": the
\* numbers run together as digits; the JSON array and the digest delimit
\* themselves.
BlockString(b, heap) ==
    <<ToStr(b.index) \o ToStr(b.timestamp),
      TxJson(b.transactions, heap),
      b.previous_hash,
      ToStr(b.difficulty) \o ToStr(b.nonce)>>

RECURSIVE SumSeq(_)
SumSeq(s) == IF s = <<>> THEN 0 ELSE Head(s) + SumSeq(Tail(s))

\* The numeric reading of a block string, from which its digest's characters
\* are taken.
BlockCode(bs) ==
    NumVal(bs[1])
    + SumSeq([i \in 1..Len(bs[2]) |-> bs[2][i].amount + 5 * bs[2][i].timestamp])
    + 7 * SumSeq(bs[3].hex)
    + NumVal(bs[4])

\* Block.calculate_hash
BlockCalculateHash(b, heap) ==
    LET block_string == BlockString(b, heap)
    IN  Sha256(block_string, BlockCode(block_string))

\* Block.__init__
NewBlock(index, previous_hash, transactions, diff, now, heap) ==
    LET b == [index |-> index, timestamp |-> now,
              transactions |-> transactions, previous_hash |-> previous_hash,
              difficulty |-> diff, nonce |-> 0, hash |-> ZeroString,
              mining_time |-> 0]
    IN  [b EXCEPT !.hash = BlockCalculateHash(b, heap)]

\* The test with a slice one character short.
MeetsTargetShort(b) ==
    Slice(b.hash, b.difficulty - 1) = Zeros(b.difficulty - 1)

\* The proof-of-work test of mine_block: self.hash[:self.difficulty] == target
MeetsTarget(b) == Slice(b.hash, b.difficulty) = Zeros(b.difficulty)

\* The loop with the nonce counted once more after the last hash.
RECURSIVE MineLoopOvershoot(_, _)
MineLoopOvershoot(b, heap) ==
    IF MeetsTarget(b) THEN [b EXCEPT !.nonce = @ + 1]
    ELSE LET b1 == [b EXCEPT !.nonce = @ + 1]
         IN  MineLoopOvershoot([b1 EXCEPT !.hash = BlockCalculateHash(b1, heap)],
                               heap)

\* The while loop of Block.mine_block.
RECURSIVE MineLoop(_, _)
MineLoop(b, heap) ==
    IF MeetsTarget(b) THEN b
    ELSE LET b1 == [b EXCEPT !.nonce = @ + 1]
         IN  MineLoop([b1 EXCEPT !.hash = BlockCalculateHash(b1, heap)], heap)

\* The slice has at most HashLen characters, the target has `difficulty` of
\* them: with a longer target the loop of mine_block never ends.
MineBlockTerminates(diff) == diff <= HashLen

-----------------------------------------------------------------------------
(* Blockchain *)

\* Blockchain.create_genesis_block
CreateGenesisBlock(now) ==
    NewBlock(0, ZeroString, <<>>, GenesisDifficulty, now, <<>>)

\* Entries of the pool and of the blocks' transaction lists.
Accepted(ch, pool) ==
    Len(pool) + SumSeq([i \in 1..Len(ch) |-> Len(ch[i].transactions)])

\* Blockchain.get_latest_block
GetLatestBlock(ch) == ch[Len(ch)]

\* chain[i] of the program, i >= 0
BlockAt(ch, i) == ch[i + 1]

\* The call made last and what it returned: (True/False, message), and the
\* block index the call or its answer names.
Call(op, ok, msg, index) == [op |-> op, ok |-> ok, msg |-> msg, index |-> index]

\* Blockchain.__init__
Init ==
    /\ txs = <<>>
    /\ clock = 1
    /\ chain = <<CreateGenesisBlock(1)>>
    /\ pending_transactions = <<>>
    /\ difficulty = StartDifficulty
    /\ processed_tx_ids = {}
    /\ mining_times = <<>>
    /\ pc = "idle"
    /\ last = Call("init", TRUE, "", 0)

\* The caller constructs a Transaction, Transaction(sender, receiver, amount,
\* timestamp), and keeps the object.
CreateTransaction(sender, receiver, amount, timestamp, now) ==
    /\ pc = "idle"
    /\ Len(txs) < MaxTx
    /\ txs' = Append(txs, NewTransaction(sender, receiver, amount, timestamp, now))
    /\ clock' = now
    /\ last' = Call("Transaction", TRUE, "", 0)
    /\ UNCHANGED <<chain, pending_transactions, difficulty, processed_tx_ids,
                   mining_times, pc>>

\* The replay check without the loop over the pool.
ReplayCheckProcessedOnly(tx, processed, pool, heap) ==
    IF tx.id \in processed THEN "id_exists" ELSE ""

\* The replay check without the test of the processed-id set.
ReplayCheckPoolOnly(tx, processed, pool, heap) ==
    IF \E i \in 1..Len(pool) : heap[pool[i]].id = tx.id
    THEN "already_pending"
    ELSE ""

\* The replay check of add_transaction: "" when the transaction passes.
ReplayCheck(tx, processed, pool, heap) ==
    IF tx.id \in processed THEN "id_exists"
    ELSE IF \E i \in 1..Len(pool) : heap[pool[i]].id = tx.id
         THEN "already_pending"
         ELSE ""

\* add_transaction running the replay check in both modes.
AddTransactionAlwaysChecked(t, secure_mode) ==
    /\ pc = "idle"
    /\ LET blocked == ReplayCheck(txs[t], processed_tx_ids,
                                  pending_transactions, txs)
       IN  IF blocked # ""
           THEN /\ last' = Call("add_transaction", FALSE, blocked, 0)
                /\ UNCHANGED <<pending_transactions, processed_tx_ids>>
           ELSE /\ Len(pending_transactions) < MaxPool
                /\ Accepted(chain, pending_transactions) < MaxAccepted
                /\ pending_transactions' = Append(pending_transactions, t)
                /\ processed_tx_ids' =
                       IF secure_mode THEN processed_tx_ids \cup {txs[t].id}
                       ELSE processed_tx_ids
                /\ last' = Call("add_transaction", TRUE, "added", 0)
    /\ UNCHANGED <<txs, chain, difficulty, mining_times, clock, pc>>

\* Blockchain.add_transaction
AddTransaction(t, secure_mode) ==
    /\ pc = "idle"
    /\ LET blocked == IF secure_mode
                      THEN ReplayCheck(txs[t], processed_tx_ids,
                                       pending_transactions, txs)
                      ELSE ""
       IN  IF blocked # ""
           THEN /\ last' = Call("add_transaction", FALSE, blocked, 0)
                /\ UNCHANGED <<pending_transactions, processed_tx_ids>>
           ELSE /\ Len(pending_transactions) < MaxPool
                /\ Accepted(chain, pending_transactions) < MaxAccepted
                /\ pending_transactions' = Append(pending_transactions, t)
                /\ processed_tx_ids' =
                       IF secure_mode THEN processed_tx_ids \cup {txs[t].id}
                       ELSE processed_tx_ids
                /\ last' = Call("add_transaction", TRUE, "added", 0)
    /\ UNCHANGED <<txs, chain, difficulty, mining_times, clock, pc>>

\* The adjustment with `<=` for `<`.
AdjustedDifficultyAtTarget(ch, diff) ==
    IF Len(ch) < 2 THEN diff
    ELSE LET time_taken == ch[Len(ch)].mining_time
         IN  IF time_taken <= TargetTime THEN diff + 1
             ELSE IF time_taken > TargetTime /\ diff > 1 THEN diff - 1
             ELSE diff

\* The body of Blockchain.adjust_difficulty: the difficulty it leaves.
AdjustedDifficulty(ch, diff) ==
    IF Len(ch) < 2 THEN diff
    ELSE LET time_taken == GetLatestBlock(ch).mining_time
         IN  IF time_taken < TargetTime THEN diff + 1
             ELSE IF time_taken > TargetTime /\ diff > 1 THEN diff - 1
             ELSE diff

\* Blockchain.adjust_difficulty
AdjustDifficulty ==
    /\ pc = "idle"
    /\ AdjustedDifficulty(chain, difficulty) <= MaxDifficulty
    /\ difficulty' = AdjustedDifficulty(chain, difficulty)
    /\ last' = Call("adjust_difficulty", TRUE, "", 0)
    /\ UNCHANGED <<txs, chain, pending_transactions, processed_tx_ids,
                   mining_times, clock, pc>>

\* No id registered at mining.
PoolIdsNone(pool, heap) == {}

\* The ids mine_pending_transactions registers.
PoolIds(pool, heap) == {heap[pool[i]].id : i \in 1..Len(pool)}

\* The call without its first test: an empty pool is mined into a block.
MineEmptyBlock(auto_adjust) ==
    /\ pc = "idle"
    /\ pending_transactions = <<>>
    /\ MineBlockTerminates(difficulty)
    /\ Len(chain) < MaxChain
    /\ LET new_block == MineLoop(NewBlock(Len(chain), GetLatestBlock(chain).hash,
                                          pending_transactions, difficulty,
                                          clock, txs), txs)
       IN  /\ chain' = Append(chain, new_block)
           /\ mining_times' = Append(mining_times, new_block.mining_time)
           /\ last' = Call("mine_pending_transactions", TRUE, "mined",
                           new_block.index)
    /\ UNCHANGED <<txs, pending_transactions, difficulty, processed_tx_ids,
                   clock, pc>>

\* The call with the adjustment taken before the pool is looked at.
MineEmptyAdjusting(auto_adjust) ==
    /\ pc = "idle"
    /\ pending_transactions = <<>>
    /\ difficulty' = IF auto_adjust THEN AdjustedDifficulty(chain, difficulty)
                     ELSE difficulty
    /\ last' = Call("mine_pending_transactions", FALSE, "no_transactions", 0)
    /\ UNCHANGED <<txs, chain, pending_transactions, processed_tx_ids,
                   mining_times, clock, pc>>

\* Blockchain.mine_pending_transactions with an empty pool
MineEmpty(auto_adjust) ==
    /\ pc = "idle"
    /\ pending_transactions = <<>>
    /\ last' = Call("mine_pending_transactions", FALSE, "no_transactions", 0)
    /\ UNCHANGED <<txs, chain, pending_transactions, difficulty,
                   processed_tx_ids, mining_times, clock, pc>>

\* The block built on the string "0", like the genesis block.
SearchedBlockUnlinked(now) ==
    MineLoop(NewBlock(Len(chain), ZeroString, pending_transactions,
                      difficulty, now, txs), txs)

\* The block built on the hash the latest block records for its predecessor.
SearchedBlockStaleLink(now) ==
    MineLoop(NewBlock(Len(chain), GetLatestBlock(chain).previous_hash,
                      pending_transactions, difficulty, now, txs), txs)

\* The block numbered after the latest block's index.
SearchedBlockIndexOfLatest(now) ==
    MineLoop(NewBlock(GetLatestBlock(chain).index, GetLatestBlock(chain).hash,
                      pending_transactions, difficulty, now, txs), txs)

\* The block mine_pending_transactions builds from the pool, after the loop
\* of mine_block.
SearchedBlock(now) ==
    MineLoop(NewBlock(Len(chain), GetLatestBlock(chain).hash,
                      pending_transactions, difficulty, now, txs), txs)

\* Blockchain.mine_pending_transactions when the search ends, `searched`
\* being SearchedBlock(now) and elapsed the duration of the search.
MinePending(auto_adjust, searched, elapsed) ==
    /\ pc = "idle"
    /\ pending_transactions # <<>>
    /\ MineBlockTerminates(difficulty)
    /\ Len(chain) < MaxChain
    /\ LET new_block == [searched EXCEPT !.mining_time = elapsed]
           new_chain == Append(chain, new_block)
           new_difficulty == IF auto_adjust
                             THEN AdjustedDifficulty(new_chain, difficulty)
                             ELSE difficulty
       IN  /\ new_difficulty <= MaxDifficulty
           /\ chain' = new_chain
           /\ processed_tx_ids' =
                  processed_tx_ids \cup PoolIds(pending_transactions, txs)
           /\ pending_transactions' = <<>>
           /\ mining_times' = Append(mining_times, new_block.mining_time)
           /\ difficulty' = new_difficulty
           /\ last' = Call("mine_pending_transactions", TRUE, "mined",
                           new_block.index)
    /\ clock' = searched.timestamp
    /\ UNCHANGED <<txs, pc>>

\* Blockchain.mine_pending_transactions when the search never ends: the call
\* enters the loop of mine_block, does not return and nothing else runs.
MineForever(auto_adjust) ==
    /\ pc = "idle"
    /\ pending_transactions # <<>>
    /\ ~MineBlockTerminates(difficulty)
    /\ pc' = "mining"
    /\ last' = Call("mine_pending_transactions", FALSE, "searching", 0)
    /\ UNCHANGED <<txs, chain, pending_transactions, difficulty,
                   processed_tx_ids, mining_times, clock>>

\* One turn of the loop of mine_block in a search that never ends: the test
\* of the slice against the longer target fails whatever the nonce, the nonce
\* is counted up ("hashing") and the hash recomputed ("mining" again).
MineSearching ==
    /\ pc \in {"mining", "hashing"}
    /\ ~MineBlockTerminates(difficulty)
    /\ pc' = IF pc = "mining" THEN "hashing" ELSE "mining"
    /\ UNCHANGED <<txs, chain, pending_transactions, difficulty,
                   processed_tx_ids, mining_times, clock, last>>

\* The loop without the comparison of the stored and recomputed hash.
RECURSIVE ValidFromLinksOnly(_, _, _)
ValidFromLinksOnly(i, ch, heap) ==
    IF i >= Len(ch) THEN [ok |-> TRUE, msg |-> "valid", index |-> 0]
    ELSE IF BlockAt(ch, i).previous_hash # BlockAt(ch, i - 1).hash
         THEN [ok |-> FALSE, msg |-> "invalid_link", index |-> i]
         ELSE ValidFromLinksOnly(i + 1, ch, heap)

\* The loop with the link compared before the hash.
RECURSIVE ValidFromLinkFirst(_, _, _)
ValidFromLinkFirst(i, ch, heap) ==
    IF i >= Len(ch) THEN [ok |-> TRUE, msg |-> "valid", index |-> 0]
    ELSE LET current == BlockAt(ch, i)
             previous == BlockAt(ch, i - 1)
         IN  IF current.previous_hash # previous.hash
             THEN [ok |-> FALSE, msg |-> "invalid_link", index |-> i]
             ELSE IF current.hash # BlockCalculateHash(current, heap)
             THEN [ok |-> FALSE, msg |-> "hash_mismatch", index |-> i]
             ELSE ValidFromLinkFirst(i + 1, ch, heap)

\* The loop of Blockchain.is_chain_valid from block i on.
RECURSIVE ValidFrom(_, _, _)
ValidFrom(i, ch, heap) ==
    IF i >= Len(ch) THEN [ok |-> TRUE, msg |-> "valid", index |-> 0]
    ELSE LET current == BlockAt(ch, i)
             previous == BlockAt(ch, i - 1)
         IN  IF current.hash # BlockCalculateHash(current, heap)
             THEN [ok |-> FALSE, msg |-> "hash_mismatch", index |-> i]
             ELSE IF current.previous_hash # previous.hash
             THEN [ok |-> FALSE, msg |-> "invalid_link", index |-> i]
             ELSE ValidFrom(i + 1, ch, heap)

\* What Blockchain.is_chain_valid returns.
ChainValidity(ch, heap) == ValidFrom(1, ch, heap)

\* The check writing the recomputed hash back into every block it reads.
IsChainValidRepairing ==
    /\ pc = "idle"
    /\ LET r == ChainValidity(chain, txs)
       IN  last' = Call("is_chain_valid", r.ok, r.msg, r.index)
    /\ chain' = [i \in 1..Len(chain) |->
                    IF i = 1 THEN chain[i]
                    ELSE [chain[i] EXCEPT
                              !.hash = BlockCalculateHash(chain[i], txs)]]
    /\ UNCHANGED <<txs, pending_transactions, difficulty, processed_tx_ids,
                   mining_times, clock, pc>>

\* Blockchain.is_chain_valid
IsChainValid ==
    /\ pc = "idle"
    /\ LET r == ChainValidity(chain, txs)
       IN  last' = Call("is_chain_valid", r.ok, r.msg, r.index)
    /\ UNCHANGED <<txs, chain, pending_transactions, difficulty,
                   processed_tx_ids, mining_times, clock, pc>>

\* self.chain[block_index] of a Python list: a negative index counts from the
\* end; -1 stands for the IndexError of an index below -len(chain).
ListPosition(ch, block_index) ==
    IF block_index >= 0 THEN block_index
    ELSE IF block_index + Len(ch) >= 0 THEN block_index + Len(ch)
    ELSE 0 - 1

\* What Blockchain.corrupt_block returns.
CorruptOutcome(ch, block_index) ==
    IF block_index < Len(ch)
    THEN IF ListPosition(ch, block_index) < 0 THEN "IndexError"
         ELSE IF BlockAt(ch, ListPosition(ch, block_index)).transactions # <<>>
         THEN "tampered"
         ELSE "no_transactions"
    ELSE "invalid_index"

\* The hook storing the hash of the block it has written to.
CorruptBlockRehashing(block_index, new_data) ==
    /\ pc = "idle"
    /\ LET outcome == CorruptOutcome(chain, block_index)
       IN  /\ last' = Call("corrupt_block", outcome = "tampered", outcome,
                           block_index)
           /\ IF outcome = "tampered"
              THEN LET k == ListPosition(chain, block_index) + 1
                       heap == [txs EXCEPT
                                    ![chain[k].transactions[1]].amount = new_data]
                   IN  /\ txs' = heap
                       /\ chain' = [chain EXCEPT
                                        ![k].hash = BlockCalculateHash(chain[k], heap)]
              ELSE UNCHANGED <<txs, chain>>
    /\ UNCHANGED <<pending_transactions, difficulty, processed_tx_ids,
                   mining_times, clock, pc>>

\* Blockchain.corrupt_block
CorruptBlock(block_index, new_data) ==
    /\ pc = "idle"
    /\ LET outcome == CorruptOutcome(chain, block_index)
       IN  /\ last' = Call("corrupt_block", outcome = "tampered", outcome,
                           block_index)
           /\ IF outcome = "tampered"
              THEN LET b == BlockAt(chain, ListPosition(chain, block_index))
                   IN  txs' = [txs EXCEPT ![b.transactions[1]].amount = new_data]
              ELSE UNCHANGED txs
    /\ UNCHANGED <<chain, pending_transactions, difficulty, processed_tx_ids,
                   mining_times, clock, pc>>

Next ==
    \/ \E s \in Senders, r \in Receivers, a \in Amounts, ts \in Timestamps,
          now \in clock..MaxTime : CreateTransaction(s, r, a, ts, now)
    \/ \E t \in 1..Len(txs), secure_mode \in BOOLEAN :
          AddTransaction(t, secure_mode)
    \/ AdjustDifficulty
    \/ \E auto_adjust \in BOOLEAN : MineEmpty(auto_adjust)
    \/ \E now \in clock..MaxTime :
          /\ pending_transactions # <<>>
          /\ MineBlockTerminates(difficulty)
          /\ \E searched \in {SearchedBlock(now)}, auto_adjust \in BOOLEAN,
                 elapsed \in MiningTimes :
                 MinePending(auto_adjust, searched, elapsed)
    \/ \E auto_adjust \in BOOLEAN : MineForever(auto_adjust)
    \/ MineSearching
    \/ IsChainValid
    \/ \E block_index \in BlockIndexes, new_data \in NewData :
          CorruptBlock(block_index, new_data)

Spec == Init /\ [][Next]_vars

\* The program is single-threaded and every call runs to its return: a step
\* that can be taken is taken.
SpecLive == Init /\ [][Next]_vars /\ WF_vars(Next)

\* Every submission is made with replay protection enabled.
NextSecure ==
    \/ \E s \in Senders, r \in Receivers, a \in Amounts, ts \in Timestamps,
          now \in clock..MaxTime : CreateTransaction(s, r, a, ts, now)
    \/ \E t \in 1..Len(txs) : AddTransaction(t, TRUE)
    \/ AdjustDifficulty
    \/ \E auto_adjust \in BOOLEAN : MineEmpty(auto_adjust)
    \/ \E now \in clock..MaxTime :
          /\ pending_transactions # <<>>
          /\ MineBlockTerminates(difficulty)
          /\ \E searched \in {SearchedBlock(now)}, auto_adjust \in BOOLEAN,
                 elapsed \in MiningTimes :
                 MinePending(auto_adjust, searched, elapsed)
    \/ \E auto_adjust \in BOOLEAN : MineForever(auto_adjust)
    \/ MineSearching
    \/ IsChainValid
    \/ \E block_index \in BlockIndexes, new_data \in NewData :
          CorruptBlock(block_index, new_data)

SpecSecure == Init /\ [][NextSecure]_vars

\* No corrupt_block call is made.
NextHonest ==
    \/ \E s \in Senders, r \in Receivers, a \in Amounts, ts \in Timestamps,
          now \in clock..MaxTime : CreateTransaction(s, r, a, ts, now)
    \/ \E t \in 1..Len(txs), secure_mode \in BOOLEAN :
          AddTransaction(t, secure_mode)
    \/ AdjustDifficulty
    \/ \E auto_adjust \in BOOLEAN : MineEmpty(auto_adjust)
    \/ \E now \in clock..MaxTime :
          /\ pending_transactions # <<>>
          /\ MineBlockTerminates(difficulty)
          /\ \E searched \in {SearchedBlock(now)}, auto_adjust \in BOOLEAN,
                 elapsed \in MiningTimes :
                 MinePending(auto_adjust, searched, elapsed)
    \/ \E auto_adjust \in BOOLEAN : MineForever(auto_adjust)
    \/ MineSearching
    \/ IsChainValid

SpecHonest == Init /\ [][NextHonest]_vars

-----------------------------------------------------------------------------
(* is_chain_valid as a function of the chain it is given.  The attributes of *)
(* a Block and of a Transaction are plain Python attributes, so the blocks   *)
(* is_chain_valid reads may carry any stored hash, any previous_hash and any *)
(* amount: the chains below are mined and then written to field by field.    *)

\* A digest that is the hash of no block.
ForeignHash == Sha256(<<"0">>, StrCode(<<"0">>))

\* The transactions of the audited chains, as constructed: one for every
\* block after the genesis block.
AuditTransactions ==
    [t \in 1..(MaxChain - 1) |->
        NewTransaction(<<"A">>, <<"B">>, IF t % 2 = 1 THEN 1 ELSE 2, 1, 1)]

\* The heaps is_chain_valid may find: each amount as constructed or rewritten.
AuditHeaps ==
    {[t \in 1..(MaxChain - 1) |-> [AuditTransactions[t] EXCEPT !.amount = amt[t]]] :
         amt \in [1..(MaxChain - 1) -> Amounts]}

\* Block i >= 1 as mine_pending_transactions builds it over transaction i,
\* on the stored hash of the latest block of ch or on a foreign one.
AuditBlocks(ch) ==
    {[MineLoop(NewBlock(Len(ch), link, <<Len(ch)>>, GenesisDifficulty, 1,
                        AuditTransactions), AuditTransactions)
         EXCEPT !.mining_time = TargetTime] :
        link \in {GetLatestBlock(ch).hash, ForeignHash}}

\* Block b with its stored hash kept or overwritten.
Overwritten(b) == {[b EXCEPT !.hash = h] : h \in {b.hash, ForeignHash}}

\* The chains of n blocks.
RECURSIVE AuditChains(_)
AuditChains(n) ==
    IF n = 1
    THEN {<<g>> : g \in Overwritten(CreateGenesisBlock(1))}
    ELSE UNION {UNION {{Append(ch, c) : c \in Overwritten(b)} :
                           b \in AuditBlocks(ch)} :
                    ch \in AuditChains(n - 1)}

InitAudit ==
    /\ txs \in AuditHeaps
    /\ clock = 1
    /\ chain \in UNION {AuditChains(n) : n \in 1..MaxChain}
    /\ pending_transactions = <<>>
    /\ difficulty = StartDifficulty
    /\ processed_tx_ids = {txs[t].id : t \in 1..(Len(chain) - 1)}
    /\ mining_times = [i \in 1..(Len(chain) - 1) |-> TargetTime]
    /\ pc = "idle"
    /\ last = Call("init", TRUE, "", 0)

NextAudit == IsChainValid

SpecAudit == InitAudit /\ [][NextAudit]_vars

-----------------------------------------------------------------------------
(* Transaction ids over fields whose texts run into one another: a receiver *)
(* name ending in a digit, amounts and timestamps of one and two digits.     *)

TextReceivers == {<<"B">>, <<"B", "1">>}
TextAmounts == {1, 11}
TextTimestamps == {1, 11}

NextIds ==
    \/ \E s \in Senders, r \in TextReceivers, a \in TextAmounts,
          ts \in TextTimestamps : CreateTransaction(s, r, a, ts, clock)
    \/ \E t \in 1..Len(txs) : AddTransaction(t, TRUE)
    \/ /\ pending_transactions # <<>>
       /\ MineBlockTerminates(difficulty)
       /\ \E searched \in {SearchedBlock(clock)} :
              MinePending(FALSE, searched, TargetTime)

SpecIds == Init /\ [][NextIds]_vars

-----------------------------------------------------------------------------
(* Vocabulary of the properties *)

\* The transaction objects of the blocks, in chain order, then of the pool.
RECURSIVE ChainEntries(_)
ChainEntries(ch) ==
    IF ch = <<>> THEN <<>>
    ELSE ChainEntries(SubSeq(ch, 1, Len(ch) - 1)) \o ch[Len(ch)].transactions

Entries(ch, pool) == ChainEntries(ch) \o pool

IdsOf(refs, heap) == {heap[refs[i]].id : i \in 1..Len(refs)}

\* A transaction with this id is waiting in the pool.
Pending(id) == id \in IdsOf(pending_transactions, txs)

Mined == last'.op = "mine_pending_transactions" /\ last'.ok

LastBlock == chain[Len(chain)]

-----------------------------------------------------------------------------
(* C1 *)

\* C1: a submission with replay protection enabled is refused as a duplicate
\* exactly when the id of the transaction is in the processed-id set or is the
\* id of a transaction in the pool; otherwise it succeeds, the transaction
\* becomes the last entry of the pool and its id is in the processed-id set
\* in that same step, so that a second submission of it is refused whether
\* or not the pool was mined in between.
C1_SecureSubmit ==
    [][/\ \A t \in 1..Len(txs) :
              AddTransaction(t, TRUE) =>
                  LET id == txs[t].id
                      dup == id \in processed_tx_ids \/ Pending(id)
                  IN  /\ last'.ok = ~dup
                      /\ dup => /\ pending_transactions' = pending_transactions
                                /\ processed_tx_ids' = processed_tx_ids
                      /\ ~dup => /\ pending_transactions' =
                                        Append(pending_transactions, t)
                                 /\ processed_tx_ids' =
                                        processed_tx_ids \cup {id}
       /\ \A t \in 1..Len(txs) :
              txs[t].id \in processed_tx_ids =>
                  /\ txs'[t].id = txs[t].id
                  /\ txs'[t].id \in processed_tx_ids'
                  /\ ReplayCheck(txs'[t], processed_tx_ids',
                                 pending_transactions', txs') # ""]_vars

\* A transaction accepted under replay protection and mined is submitted
\* again and refused.
C1_Witness ==
    /\ last.op = "add_transaction"
    /\ ~last.ok
    /\ last.msg = "id_exists"
    /\ Len(chain) > 1
    /\ pending_transactions = <<>>
    /\ \E t \in 1..Len(txs) : LastBlock.transactions = <<t>>

-----------------------------------------------------------------------------
(* C2 *)

\* No two entries of the pool and the blocks carry the same id.
NoDuplicateIds ==
    LET e == Entries(chain, pending_transactions)
    IN  \A i, j \in 1..Len(e) : i # j => txs[e[i]].id # txs[e[j]].id

\* C2: when every submission is made with replay protection enabled, no
\* transaction id occurs twice across the pool and the blocks' transaction
\* lists, and an accepted transaction keeps its one place: a step leaves the
\* entries of the blocks and the pool as they were (mining moves the pool
\* into the new block) or adds one entry at the end of the pool.
C2_OnePlacePerTransaction ==
    /\ []NoDuplicateIds
    /\ [][LET e == Entries(chain, pending_transactions)
              f == Entries(chain', pending_transactions')
          IN  \/ f = e
              \/ \E t \in 1..Len(txs) : f = Append(e, t)]_vars

\* Two accepted transactions sit in two blocks and a replay of one of them
\* was refused.
C2_Witness ==
    /\ Len(chain) = 3
    /\ Len(Entries(chain, pending_transactions)) = 2
    /\ last.op = "add_transaction"
    /\ ~last.ok

-----------------------------------------------------------------------------
(* C3 *)

\* C3: as long as corrupt_block is not called, the stored hash of every
\* block is the hash recomputed from its fields, and is_chain_valid answers
\* that the chain is valid.
C3_HonestChainValid ==
    /\ \A i \in 1..Len(chain) : chain[i].hash = BlockCalculateHash(chain[i], txs)
    /\ ChainValidity(chain, txs).ok

\* Two blocks were mined, one of them holding the same transaction twice,
\* and is_chain_valid was called.
C3_Witness ==
    /\ Len(chain) = 3
    /\ \E i \in 2..3 : Len(chain[i].transactions) = 2
                       /\ chain[i].transactions[1] = chain[i].transactions[2]
    /\ last.op = "is_chain_valid"
    /\ last.ok

-----------------------------------------------------------------------------
(* C4 *)

\* corrupt_block has just returned success for the block index k >= 1.
Corrupted(k) == last.op = "corrupt_block" /\ last.ok /\ last.index = k

\* The amount of its first transaction that the stored hash of block b was
\* computed over.
HashedAmount(b) == b.hash.pre[2][1].amount

\* The amount its first transaction has now.
FirstAmount(b) == txs[b.transactions[1]].amount

\* C4 as claimed: after corrupt_block returns success for a non-genesis block
\* index k, whatever the new value, is_chain_valid fails and names a block
\* index >= k.
C4_AsClaimed ==
    \A k \in 1..MaxChain :
        Corrupted(k) =>
            LET v == ChainValidity(chain, txs)
            IN  ~v.ok /\ v.index >= k

\* C4, amended: after corrupt_block returns success for a non-genesis block
\* index k with a new value other than the amount the stored hash of block k
\* was computed over, is_chain_valid fails with a hash mismatch, and the
\* block it names is the first one that no longer matches its stored hash:
\* an index from 1 to k, and k itself when every block before k matches.
C4_TamperDetected ==
    \A k \in 1..MaxChain :
        Corrupted(k) /\ FirstAmount(BlockAt(chain, k)) # HashedAmount(BlockAt(chain, k)) =>
            LET v == ChainValidity(chain, txs)
            IN  /\ ~v.ok
                /\ v.msg = "hash_mismatch"
                /\ v.index \in 1..k
                /\ (\A j \in 1..(k - 1) :
                        BlockAt(chain, j).hash =
                            BlockCalculateHash(BlockAt(chain, j), txs))
                   => v.index = k

\* Block 2 was corrupted and is_chain_valid names block 1, which holds the
\* same transaction object.
C4_Witness ==
    /\ Corrupted(2)
    /\ FirstAmount(BlockAt(chain, 2)) # HashedAmount(BlockAt(chain, 2))
    /\ BlockAt(chain, 1).transactions[1] = BlockAt(chain, 2).transactions[1]
    /\ ChainValidity(chain, txs).index = 1

-----------------------------------------------------------------------------
(* C5 *)

\* C5: when mine_pending_transactions returns success, it has appended one
\* block, recorded with the difficulty the chain had when the call was made,
\* whose stored hash begins with that many '0' characters and is the hash
\* recomputed from the block's fields, the final nonce included.
C5_MinedBlockMeetsTarget ==
    [][Mined =>
          LET b == chain'[Len(chain')]
          IN  /\ chain' = Append(chain, b)
              /\ b.difficulty = difficulty
              /\ Len(b.hash.hex) >= difficulty
              /\ \A i \in 1..difficulty : b.hash.hex[i] = 0
              /\ b.hash = BlockCalculateHash(b, txs')]_vars

\* A block was mined at difficulty 2 after a search of more than one step.
C5_Witness ==
    /\ last.op = "mine_pending_transactions"
    /\ last.ok
    /\ LastBlock.difficulty = 2
    /\ LastBlock.nonce > 0
    /\ LastBlock.hash.hex = <<0, 0>>

-----------------------------------------------------------------------------
(* C6 *)

\* C6: in every state, every block after the genesis block records as
\* previous_hash the stored hash of the block before it.
C6_ChainLinked ==
    \A i \in 1..(Len(chain) - 1) :
        BlockAt(chain, i).previous_hash = BlockAt(chain, i - 1).hash

\* Two blocks were mined and the first of them was corrupted afterwards.
C6_Witness ==
    /\ Len(chain) = 3
    /\ BlockAt(chain, 1).hash # BlockCalculateHash(BlockAt(chain, 1), txs)
    /\ BlockAt(chain, 2).previous_hash = BlockAt(chain, 1).hash

-----------------------------------------------------------------------------
(* C7 *)

\* C7: a mine_pending_transactions call that returns with a non-empty pool
\* succeeds and appends exactly one block: its index is the previous length
\* of the chain, its previous_hash the stored hash of the previous last
\* block, its difficulty the chain's, its transactions the whole pool in pool
\* order; the pool is empty afterwards and the block's mining_time is
\* appended to the mining history.  No other call appends a block or removes
\* a transaction from the pool.
C7_MineAbsorbsPool ==
    [][/\ (last'.op = "mine_pending_transactions"
             /\ pending_transactions # <<>> /\ pc' = "idle") => last'.ok
       /\ Mined =>
              LET b == chain'[Len(chain')]
              IN  /\ chain' = Append(chain, b)
                  /\ b.index = Len(chain)
                  /\ b.previous_hash = LastBlock.hash
                  /\ b.difficulty = difficulty
                  /\ pending_transactions # <<>>
                  /\ b.transactions = pending_transactions
                  /\ pending_transactions' = <<>>
                  /\ mining_times' = Append(mining_times, b.mining_time)
       /\ ~Mined =>
              /\ chain' = chain
              /\ mining_times' = mining_times
              /\ Len(pending_transactions') >= Len(pending_transactions)
              /\ SubSeq(pending_transactions', 1, Len(pending_transactions))
                     = pending_transactions]_vars

\* The second block was mined from a pool of two transactions.
C7_Witness ==
    /\ last.op = "mine_pending_transactions"
    /\ last.ok
    /\ Len(chain) = 3
    /\ Len(LastBlock.transactions) = 2
    /\ Len(mining_times) = 2
    /\ pending_transactions = <<>>

-----------------------------------------------------------------------------
(* C8 *)

\* The difficulty the claim gives for a chain whose last block took `elapsed`.
ClaimedDifficulty(len, elapsed, diff) ==
    IF len < 2 THEN diff
    ELSE IF elapsed < TargetTime THEN diff + 1
    ELSE IF elapsed > TargetTime /\ diff > 1 THEN diff - 1
    ELSE diff

\* C8: adjust_difficulty changes nothing on a chain of fewer than 2 blocks;
\* otherwise the last block's mining_time alone decides: below the target
\* the difficulty grows by exactly 1, above it with a difficulty over 1 it
\* falls by exactly 1, and it stays otherwise.  mine_pending_transactions
\* takes this step only when auto_adjust is set and leaves the difficulty
\* alone otherwise, no other call changes it, and it is always >= 1.
C8_DifficultyAdjustment ==
    /\ [](difficulty >= 1)
    /\ [][/\ last'.op = "adjust_difficulty" =>
                 /\ difficulty' = ClaimedDifficulty(Len(chain),
                                                    LastBlock.mining_time,
                                                    difficulty)
                 /\ UNCHANGED <<txs, chain, pending_transactions,
                                processed_tx_ids, mining_times>>
          /\ Mined =>
                 LET b == chain'[Len(chain')]
                 IN  \A auto_adjust \in BOOLEAN :
                         MinePending(auto_adjust, b, b.mining_time) =>
                             difficulty' =
                                 IF auto_adjust
                                 THEN ClaimedDifficulty(Len(chain'),
                                                        b.mining_time,
                                                        difficulty)
                                 ELSE difficulty
          /\ (last'.op # "adjust_difficulty" /\ ~Mined) =>
                 difficulty' = difficulty]_vars

\* adjust_difficulty was called at difficulty 1 after a slow search, and left
\* the difficulty at 1.
C8_Witness ==
    /\ last.op = "adjust_difficulty"
    /\ Len(chain) >= 2
    /\ LastBlock.mining_time > TargetTime
    /\ difficulty = 1

-----------------------------------------------------------------------------
(* C9 *)

\* C9: a submission with replay protection disabled succeeds whatever the
\* pool, the blocks and the processed-id set hold: the transaction becomes
\* the last entry of the pool and the processed-id set is left as it was.
C9_InsecureSubmit ==
    [][\A t \in 1..Len(txs) :
           AddTransaction(t, FALSE) =>
               /\ last'.ok
               /\ pending_transactions' = Append(pending_transactions, t)
               /\ processed_tx_ids' = processed_tx_ids
               /\ UNCHANGED <<txs, chain, difficulty, mining_times>>]_vars

\* A transaction that is in a mined block and in the processed-id set was
\* submitted twice more: the pool holds it twice.
C9_Witness ==
    /\ last.op = "add_transaction"
    /\ last.ok
    /\ Len(pending_transactions) = 2
    /\ pending_transactions[1] = pending_transactions[2]
    /\ txs[pending_transactions[1]].id \in processed_tx_ids
    /\ Len(chain) = 2
    /\ LastBlock.transactions = <<pending_transactions[1]>>

-----------------------------------------------------------------------------
(* C10 *)

\* The id of every entry of refs is in the processed-id set.
Registered(refs) == IdsOf(refs, txs) \subseteq processed_tx_ids

\* C10 as claimed: the processed-id set holds the id of every accepted
\* transaction, those in the pool and those in blocks, and loses none.
C10_AsClaimed ==
    /\ [](Registered(ChainEntries(chain)) /\ Registered(pending_transactions))
    /\ [][processed_tx_ids \subseteq processed_tx_ids']_vars

\* C10, amended: the processed-id set holds the id of every transaction in a
\* mined block and of every transaction accepted with replay protection
\* enabled, from the step that accepts it; a transaction accepted with
\* replay protection disabled is registered when it is mined.  No id is ever
\* removed.
C10_ProcessedIds ==
    /\ []Registered(ChainEntries(chain))
    /\ [][/\ processed_tx_ids \subseteq processed_tx_ids'
          /\ \A t \in 1..Len(txs) :
                 (AddTransaction(t, TRUE) /\ last'.ok) =>
                     txs[t].id \in processed_tx_ids'
          /\ Mined => IdsOf(pending_transactions, txs)
                          \subseteq processed_tx_ids']_vars

\* A transaction accepted without replay protection waits in the pool,
\* unregistered, next to a mined block.
C10_Witness ==
    /\ Len(chain) >= 2
    /\ pending_transactions # <<>>
    /\ ~Registered(pending_transactions)
    /\ last.op = "add_transaction"
    /\ last.ok

-----------------------------------------------------------------------------
(* C11 *)

\* C11: a mine_pending_transactions call answers "no transactions" exactly
\* when the pool is empty, with auto_adjust set or not, and then the chain,
\* the transactions, the pool, the processed-id set, the difficulty and the
\* mining history are as before; an add_transaction call that is refused
\* leaves the pool and the processed-id set as before.
C11_FailuresChangeNothing ==
    [][/\ last'.op = "mine_pending_transactions" =>
              /\ (last'.msg = "no_transactions") <=> (pending_transactions = <<>>)
              /\ pending_transactions = <<>> =>
                     /\ ~last'.ok
                     /\ UNCHANGED <<txs, chain, pending_transactions,
                                    processed_tx_ids, difficulty, mining_times>>
       /\ \A auto_adjust \in BOOLEAN :
              MineEmpty(auto_adjust) =>
                  UNCHANGED <<txs, chain, pending_transactions,
                              processed_tx_ids, difficulty, mining_times>>
       /\ (last'.op = "add_transaction" /\ ~last'.ok) =>
              UNCHANGED <<txs, chain, pending_transactions, processed_tx_ids,
                          difficulty, mining_times>>]_vars

\* Mining was asked for with an empty pool after a block that was mined
\* faster than the target: an adjustment would have raised the difficulty.
C11_Witness ==
    /\ last.op = "mine_pending_transactions"
    /\ ~last.ok
    /\ last.msg = "no_transactions"
    /\ pending_transactions = <<>>
    /\ Len(chain) >= 2
    /\ LastBlock.mining_time < TargetTime
    /\ AdjustedDifficulty(chain, difficulty) # difficulty

-----------------------------------------------------------------------------
(* C12 *)

\* C12 as claimed: a corrupt_block call with a block index outside
\* 0 .. len(chain) - 1, a negative one included, answers "invalid index"
\* without raising and without changing anything; with the index of a block
\* that has no transactions it answers "no transactions" and changes nothing.
C12_AsClaimed ==
    [][last'.op = "corrupt_block" =>
          /\ last'.index \notin 0..(Len(chain) - 1) =>
                 /\ last'.msg = "invalid_index"
                 /\ UNCHANGED <<txs, chain, pending_transactions,
                                processed_tx_ids, difficulty, mining_times>>
          /\ (/\ last'.index \in 0..(Len(chain) - 1)
              /\ BlockAt(chain, last'.index).transactions = <<>>) =>
                 /\ last'.msg = "no_transactions"
                 /\ UNCHANGED <<txs, chain, pending_transactions,
                                processed_tx_ids, difficulty, mining_times>>]_vars

\* corrupt_block was called with the index -1 on a chain with a mined block:
\* it answered "tampered" and the amount of the first transaction of the
\* last block is no longer the amount the block's hash was computed over.
C12_Witness ==
    /\ last.op = "corrupt_block"
    /\ last.index = 0 - 1
    /\ last.ok
    /\ Len(chain) >= 2
    /\ FirstAmount(LastBlock) # HashedAmount(LastBlock)

-----------------------------------------------------------------------------
(* C13 *)

\* The stored hash of block i is the hash recomputed from its fields.
HashOk(i) == BlockAt(chain, i).hash = BlockCalculateHash(BlockAt(chain, i), txs)

\* Block i records the stored hash of block i - 1.
LinkOk(i) == BlockAt(chain, i).previous_hash = BlockAt(chain, i - 1).hash

\* The blocks after the genesis block that fail one of the two checks.
Offending == {i \in 1..(Len(chain) - 1) : ~HashOk(i) \/ ~LinkOk(i)}

\* C13: is_chain_valid answers "valid" exactly when every block after the
\* genesis block passes the hash check and the link check; otherwise it
\* names the smallest index failing either check, as a hash mismatch when
\* that block fails the hash check and as an invalid link only when the
\* block passes the hash check.  The stored hash of the genesis block is
\* compared with nothing but the previous_hash of block 1.
C13_FirstOffendingBlock ==
    LET v == ChainValidity(chain, txs)
    IN  /\ v.ok <=> Offending = {}
        /\ v.ok => v.msg = "valid"
        /\ ~v.ok =>
               /\ v.index \in Offending
               /\ \A j \in Offending : v.index <= j
               /\ ~HashOk(v.index) => v.msg = "hash_mismatch"
               /\ HashOk(v.index) => v.msg = "invalid_link"
        /\ last.op = "is_chain_valid" =>
               last = Call("is_chain_valid", v.ok, v.msg, v.index)

\* is_chain_valid answered "invalid link" for block 2 of a chain whose
\* genesis block does not carry its own hash and whose block 1 passes both
\* checks.
C13_Witness ==
    /\ last.op = "is_chain_valid"
    /\ last.msg = "invalid_link"
    /\ last.index = 2
    /\ HashOk(2)
    /\ chain[1].hash # BlockCalculateHash(chain[1], txs)

-----------------------------------------------------------------------------
(* C14 *)

\* C14 as claimed: at every difficulty adjust_difficulty can leave, a
\* mine_pending_transactions call made with a non-empty pool ends: a search
\* that is running leads to the call's return with a block appended.
C14_AsClaimed ==
    (pc = "mining") ~> (/\ pc = "idle"
                        /\ last.op = "mine_pending_transactions"
                        /\ last.ok)

\* adjust_difficulty has raised the difficulty past the number of characters
\* of a digest, and mine_pending_transactions was called with a transaction
\* in the pool: the search runs and no block is appended.
C14_Witness ==
    /\ pc = "mining"
    /\ difficulty > HashLen
    /\ pending_transactions # <<>>
    /\ last.op = "mine_pending_transactions"
    /\ ~last.ok

-----------------------------------------------------------------------------
(* C15 *)

\* C15: whenever no call is running is_chain_valid has an answer, one of
\* its three, and a call of it, whatever it answers, leaves every block with
\* all its fields, every transaction, the pool, the processed-id set, the
\* difficulty and the mining history as they were.
C15_ValidationReadsOnly ==
    /\ [](pc = "idle" =>
              ChainValidity(chain, txs) \in
                  [ok : BOOLEAN, msg : {"valid", "hash_mismatch", "invalid_link"},
                   index : 0..(Len(chain) - 1)])
    /\ [][last'.op = "is_chain_valid" =>
              /\ chain' = chain
              /\ txs' = txs
              /\ pending_transactions' = pending_transactions
              /\ processed_tx_ids' = processed_tx_ids
              /\ difficulty' = difficulty
              /\ mining_times' = mining_times]_vars

\* is_chain_valid answered with a hash mismatch while a transaction waits in
\* the pool and the corrupted block still carries its stale hash.
C15_Witness ==
    /\ last.op = "is_chain_valid"
    /\ ~last.ok
    /\ last.msg = "hash_mismatch"
    /\ pending_transactions # <<>>
    /\ processed_tx_ids # {}
    /\ BlockAt(chain, last.index).hash #
           BlockCalculateHash(BlockAt(chain, last.index), txs)

-----------------------------------------------------------------------------
(* C16 *)

\* The transactions a list of references shows, field by field.
Shown(refs, heap) == [i \in 1..Len(refs) |-> ToDict(heap[refs[i]])]

\* C16 as claimed: a corrupt_block call that answers "tampered" changes only
\* the amount of the first transaction of the block it was pointed at: every
\* block keeps its fields, the other transactions of that block, the
\* transactions of every other block and those of the pool read as before,
\* also when one transaction was accepted several times; the processed-id
\* set, the difficulty and the mining history are as before.
C16_AsClaimed ==
    [][(last'.op = "corrupt_block" /\ last'.ok) =>
          LET k == ListPosition(chain, last'.index) + 1
          IN  /\ chain' = chain
              /\ pending_transactions' = pending_transactions
              /\ processed_tx_ids' = processed_tx_ids
              /\ difficulty' = difficulty
              /\ mining_times' = mining_times
              /\ [Shown(chain[k].transactions, txs')[1] EXCEPT !.amount = 0]
                     = [Shown(chain[k].transactions, txs)[1] EXCEPT !.amount = 0]
              /\ Tail(Shown(chain[k].transactions, txs'))
                     = Tail(Shown(chain[k].transactions, txs))
              /\ \A j \in 1..Len(chain) :
                     j # k => Shown(chain[j].transactions, txs')
                                  = Shown(chain[j].transactions, txs)
              /\ Shown(pending_transactions, txs')
                     = Shown(pending_transactions, txs)]_vars

\* corrupt_block answered "tampered" for block 2, and block 1, which holds
\* the same transaction, and the pool, which holds it too, show the new
\* amount.
C16_Witness ==
    /\ Corrupted(2)
    /\ Len(chain) = 3
    /\ pending_transactions # <<>>
    /\ BlockAt(chain, 1).transactions[1] = BlockAt(chain, 2).transactions[1]
    /\ pending_transactions[1] = BlockAt(chain, 2).transactions[1]
    /\ FirstAmount(BlockAt(chain, 1)) # HashedAmount(BlockAt(chain, 1))
    /\ txs[pending_transactions[1]].id
           # TxCalculateHash(txs[pending_transactions[1]].sender,
                             txs[pending_transactions[1]].receiver,
                             txs[pending_transactions[1]].amount,
                             txs[pending_transactions[1]].timestamp)

-----------------------------------------------------------------------------
(* C17 *)

\* The ids of the transactions a list of references holds, in order.
IdSeq(refs, heap) == [i \in 1..Len(refs) |-> heap[refs[i]].id]

\* C17: a new Blockchain has one block, the genesis block (index 0, no
\* transactions, previous_hash "0", difficulty 1, nonce 0, mining_time 0),
\* an empty pool and an empty processed-id set.  No step shortens the
\* chain, and every block in it, the genesis block included, keeps all its
\* fields and the ids of its transactions in their order; a transaction is
\* written to by corrupt_block only, and only its amount.
C17_AppendOnly ==
    /\ Len(chain) = 1
    /\ chain[1].index = 0
    /\ chain[1].transactions = <<>>
    /\ chain[1].previous_hash = ZeroString
    /\ chain[1].difficulty = 1
    /\ chain[1].nonce = 0
    /\ chain[1].mining_time = 0
    /\ chain[1].hash = BlockCalculateHash(chain[1], txs)
    /\ pending_transactions = <<>>
    /\ processed_tx_ids = {}
    /\ [][/\ Len(chain') >= Len(chain)
          /\ \A i \in 1..Len(chain) :
                 /\ chain'[i] = chain[i]
                 /\ IdSeq(chain'[i].transactions, txs')
                        = IdSeq(chain[i].transactions, txs)
          /\ \A t \in 1..Len(txs) :
                 /\ [txs'[t] EXCEPT !.amount = 0] = [txs[t] EXCEPT !.amount = 0]
                 /\ txs'[t].amount # txs[t].amount =>
                        last'.op = "corrupt_block" /\ last'.ok]_vars

\* The chain has grown to three blocks and the first transaction of a block
\* was written to: the block answers the hash check with a mismatch and
\* still carries the fields it was appended with.
C17_Witness ==
    /\ Len(chain) = 3
    /\ last.op = "corrupt_block"
    /\ last.ok
    /\ \E i \in 2..3 : /\ chain[i].hash # BlockCalculateHash(chain[i], txs)
                       /\ chain[i].index = i - 1
                       /\ chain[i].previous_hash = chain[i - 1].hash
    /\ chain[1] = CreateGenesisBlock(1)

-----------------------------------------------------------------------------
(* C18 *)

\* C18: in every state the block at position i of the chain has index i,
\* the genesis block has no transactions, every other block has at least
\* one, and the mining history has one entry for every block after the
\* genesis block.
C18_ChainShape ==
    /\ \A i \in 0..(Len(chain) - 1) : BlockAt(chain, i).index = i
    /\ BlockAt(chain, 0).transactions = <<>>
    /\ \A i \in 1..(Len(chain) - 1) : Len(BlockAt(chain, i).transactions) >= 1
    /\ Len(mining_times) = Len(chain) - 1
    /\ \A i \in 1..(Len(chain) - 1) :
           mining_times[i] = BlockAt(chain, i).mining_time

\* Two blocks were mined and mining was asked for once more with an empty
\* pool.
C18_Witness ==
    /\ Len(chain) = 3
    /\ Len(mining_times) = 2
    /\ last.op = "mine_pending_transactions"
    /\ last.msg = "no_transactions"
    /\ Len(BlockAt(chain, 1).transactions) = 1
    /\ Len(BlockAt(chain, 2).transactions) = 2

-----------------------------------------------------------------------------
(* C19 *)

\* C19: in no state reachable through Transaction construction,
\* add_transaction in either mode, mine_pending_transactions,
\* adjust_difficulty and corrupt_block does is_chain_valid answer with an
\* invalid link: when it fails it is with a hash mismatch.  No step changes
\* the stored hash or the previous_hash of a block of the chain.
C19_NoBrokenLink ==
    /\ [](LET v == ChainValidity(chain, txs)
          IN  /\ v.msg # "invalid_link"
              /\ ~v.ok => v.msg = "hash_mismatch"
              /\ last.op = "is_chain_valid" => last.msg = v.msg)
    /\ [][\A i \in 1..Len(chain) :
              /\ chain'[i].hash = chain[i].hash
              /\ chain'[i].previous_hash = chain[i].previous_hash]_vars

\* Block 1 of three was corrupted; block 2 still passes its hash check and
\* still records the stale stored hash of block 1, and is_chain_valid
\* answered with the hash mismatch of block 1.
C19_Witness ==
    /\ Len(chain) = 3
    /\ last.op = "is_chain_valid"
    /\ ~last.ok
    /\ last.msg = "hash_mismatch"
    /\ last.index = 1
    /\ ~HashOk(1)
    /\ HashOk(2)
    /\ LinkOk(2)

-----------------------------------------------------------------------------
(* C20 *)

\* The four fields of a transaction.
Fields(tx) == <<tx.sender, tx.receiver, tx.amount, tx.timestamp>>

\* C20 as claimed: two transactions constructed without an explicit id have
\* the same id exactly when they have the same sender, receiver, amount and
\* timestamp, and an add_transaction call with replay protection enabled is
\* refused only when a transaction with the same four fields is in the pool
\* or in a block.
C20_AsClaimed ==
    /\ [](\A t, u \in 1..Len(txs) :
              txs[t].id = txs[u].id <=> Fields(txs[t]) = Fields(txs[u]))
    /\ [][\A t \in 1..Len(txs) :
              (AddTransaction(t, TRUE) /\ ~last'.ok) =>
                  LET e == Entries(chain, pending_transactions)
                  IN  \E i \in 1..Len(e) :
                          Fields(txs[e[i]]) = Fields(txs[t])]_vars

\* A transaction to "B1" of 1 was accepted and mined, and a transaction to
\* "B" of 11 with the same sender and timestamp was refused as a replay of
\* it.
C20_Witness ==
    /\ last.op = "add_transaction"
    /\ ~last.ok
    /\ last.msg = "id_exists"
    /\ Len(txs) = 2
    /\ txs[1].id = txs[2].id
    /\ txs[1].receiver = <<"B", "1">> /\ txs[1].amount = 1
    /\ txs[2].receiver = <<"B">> /\ txs[2].amount = 11
    /\ Entries(chain, pending_transactions) = <<1>>
    /\ Len(chain) = 2

====
